---- MODULE Spec2Model ----
(***************************************************************************)
(* FileShareV1 backend (server/fileShare.php) as a state machine.          *)
(*                                                                         *)
(* Every HTTP request is served by its own PHP process: the processes share *)
(* nothing but the upload directory (data files) and the metadata          *)
(* directory (one JSON file per id) and the wall clock.  Each filesystem   *)
(* call and each clock read of the script is one atomic step of the        *)
(* process that makes it; the steps of different processes interleave.     *)
(***************************************************************************)
EXTENDS Integers, Sequences, FiniteSets, TLC

(***************************************************************************)
(* Bounds of the model.                                                    *)
(***************************************************************************)
NumProcs == 2        \* PHP worker processes serving requests concurrently
MaxRequests == 3     \* requests started in one behaviour
MaxUploads == 2      \* of them, uploads that reach move_uploaded_file
MaxSmallTicks == 3   \* single clock ticks around a multiple of the TTL
MaxJumps == 1        \* long idle periods of the clock
TicksPerSec == 2     \* clock resolution: ticks per second (PHP: microseconds)
MaxDirs == 2         \* directory placeholders in one stored archive
MaxTokens == 6       \* values of previewRequestRef of one download panel
MaxInflight == 2     \* Info requests of one panel awaiting their response

(***************************************************************************)
(* Program constants.                                                      *)
(***************************************************************************)
expirationHours == 48
maxSize == 1024 * 1024 * 1024
UPLOAD_ERR_OK == 0
previewLimit == 200

Procs == 1..NumProcs

\* '+48 hours' in clock ticks
TTL == expirationHours * 60 * 60 * TicksPerSec

(***************************************************************************)
(* Characters and strings.  A string is a sequence of one-character        *)
(* strings.                                                                *)
(***************************************************************************)
Lower == {"a","b","c","d","e","f","g","h","i","j","k","l","m",
          "n","o","p","q","r","s","t","u","v","w","x","y","z"}
Upper == {"A","B","C","D","E","F","G","H","I","J","K","L","M",
          "N","O","P","Q","R","S","T","U","V","W","X","Y","Z"}
Digit == {"0","1","2","3","4","5","6","7","8","9"}

FallbackName == <<"f","i","l","e","s","h","a","r","e",".","b","i","n">>
UploadDir == <<"u","p">>

\* PHP truthiness of a string: "" and "0" are falsy
Truthy(s) == s # <<>> /\ s # <<"0">>

\* $a ?: $b
Elvis(a, b) == IF Truthy(a) THEN a ELSE b

RECURSIVE MapChars(_, _, _)
\* preg_replace('/[^<keep>]/', <repl>, s), repl a string
MapChars(s, keep, repl) ==
    IF s = <<>> THEN <<>>
    ELSE (IF Head(s) \in keep THEN <<Head(s)>> ELSE repl)
         \o MapChars(Tail(s), keep, repl)

\* a character class that lets the path separator through
SafeNameKeepsSlash(originalName) ==
    MapChars(originalName, Lower \cup Upper \cup Digit \cup {"_", ".", "/", "-"}, <<"_">>)

\* preg_replace('/[^A-Za-z0-9_.-]/', '_', $originalName)
SafeName(originalName) ==
    MapChars(originalName, Lower \cup Upper \cup Digit \cup {"_", ".", "-"}, <<"_">>)

\* preg_replace('/[^a-zA-Z0-9]/', '', (string) $_GET['id'])
SanitizeId(raw) == MapChars(raw, Lower \cup Upper \cup Digit, <<>>)

\* $id . '__' . ($safeName ?: 'fileshare.bin')
StoredName(id, safeName) == id \o <<"_","_">> \o Elvis(safeName, FallbackName)

\* rtrim($uploadDir, '/') . '/' . $storedName
TargetPath(storedName) == UploadDir \o <<"/">> \o storedName

\* DateTimeInterface::ATOM keeps whole seconds: the fraction is dropped
Atom(t) == t - (t % TicksPerSec)

RECURSIVE LastIndexOf(_, _)
\* position of the last c in s, 0 if there is none
LastIndexOf(s, c) ==
    IF s = <<>> THEN 0
    ELSE IF s[Len(s)] = c THEN Len(s)
    ELSE LastIndexOf(SubSeq(s, 1, Len(s) - 1), c)

UpperSeq == <<"A","B","C","D","E","F","G","H","I","J","K","L","M",
             "N","O","P","Q","R","S","T","U","V","W","X","Y","Z">>
LowerSeq == <<"a","b","c","d","e","f","g","h","i","j","k","l","m",
             "n","o","p","q","r","s","t","u","v","w","x","y","z">>

\* strtolower on one character
ToLowerChar(c) ==
    IF c \in Upper THEN LowerSeq[CHOOSE i \in 1..26 : UpperSeq[i] = c] ELSE c

\* a comparison of the extension that leaves out strtolower
isZipFileCaseSensitive(path) ==
    IF ~Truthy(path) THEN FALSE
    ELSE LET base == SubSeq(path, LastIndexOf(path, "/") + 1, Len(path))
             dot  == LastIndexOf(base, ".")
             ext  == IF dot = 0 THEN <<>> ELSE SubSeq(base, dot + 1, Len(base))
         IN  ext = <<"z","i","p">>

\* strtolower(pathinfo($path, PATHINFO_EXTENSION)) === 'zip'
isZipFile(path) ==
    IF ~Truthy(path) THEN FALSE
    ELSE LET base == SubSeq(path, LastIndexOf(path, "/") + 1, Len(path))
             dot  == LastIndexOf(base, ".")
             ext  == IF dot = 0 THEN <<>> ELSE SubSeq(base, dot + 1, Len(base))
         IN  [i \in 1..Len(ext) |-> ToLowerChar(ext[i])] = <<"z","i","p">>

(***************************************************************************)
(* File contents.  A payload is its bytes (data), their number (size) and, *)
(* when the bytes are a zip archive, its directory (entries); NotArchive   *)
(* otherwise.  An archive entry is [name, size]; a name ending in "/" is a *)
(* directory placeholder.                                                  *)
(***************************************************************************)
NotArchive == <<[name |-> <<>>, size |-> -1]>>   \* no directory: ZipArchive::open fails

IsArchive(content) == content.entries # NotArchive

IsDirEntry(e) == e.name # <<>> /\ e.name[Len(e.name)] = "/"

IsFileEntry(e) == ~IsDirEntry(e)

\* the entries of a directory that are not directory placeholders, in order
ContentEntries(dir) == SelectSeq(dir, IsFileEntry)

\* the loop's variables: $entries, $details['zipTruncated'], and whether the
\* loop was left by its break
NoScan == [entries |-> <<>>, truncated |-> FALSE, stop |-> FALSE]

\* a pass that takes any entry left behind the limit for a file
PreviewStepAnyLeft(dir, i, st, limit) ==
    IF IsDirEntry(dir[i]) THEN st
    ELSE LET got == Append(st.entries, dir[i])
         IN  IF Len(got) >= limit
             THEN [entries |-> got, truncated |-> i < Len(dir), stop |-> TRUE]
             ELSE [st EXCEPT !.entries = got]

\* lines 69-91: the pass of the for loop on entry i
PreviewStep(dir, i, st, limit) ==
    IF IsDirEntry(dir[i]) THEN st
    ELSE LET got == Append(st.entries, dir[i])
         IN  IF Len(got) >= limit
             THEN [entries |-> got,
                   truncated |-> \E j \in (i + 1)..Len(dir) : ~IsDirEntry(dir[j]),
                   stop |-> TRUE]
             ELSE [st EXCEPT !.entries = got]

RECURSIVE PreviewScan(_, _, _, _, _)
\* lines 68-92: the passes on the entries lo..hi in order, from the variables
\* st; no pass follows the break. The range is run as its two halves one
\* after the other, which keeps the evaluation shallow on long directories.
PreviewScan(dir, lo, hi, st, limit) ==
    IF lo > hi THEN st
    ELSE IF lo = hi THEN PreviewStep(dir, lo, st, limit)
    ELSE LET mid == (lo + hi) \div 2
             first == PreviewScan(dir, lo, mid, st, limit)
         IN  IF first.stop THEN first
             ELSE PreviewScan(dir, mid + 1, hi, first, limit)

NoPreview == [zipContents |-> <<>>, zipTruncated |-> FALSE]

(***************************************************************************)
(* Inputs of the requests.                                                 *)
(***************************************************************************)
\* bin2hex(random_bytes(6)): any value of the generator's range may come out
\* of any call; the model keeps 1 hex character of the 12
GenIds == {<<"a">>, <<"b">>}

NoPayload == [data |-> "", size |-> 0, entries |-> NotArchive]

\* $_GET['id'] as sent by the client
RawIds == {<<"a">>, <<"b">>, <<"/">>, <<"g">>, <<"0">>}

NoReq ==
    [method |-> "", action |-> "", hasFile |-> FALSE, error |-> 0, name |-> <<>>,
     payload |-> NoPayload, hasId |-> FALSE, rawId |-> <<>>, info |-> FALSE]

\* the uploads: a name and the bytes sent under it; one of the largest size
\* the script accepts, one of no bytes at all
Uploads ==
    {<<<<"n">>, [data |-> "p", size |-> maxSize, entries |-> NotArchive]>>,
     <<<<"0">>, [data |-> "q", size |-> 0, entries |-> NotArchive]>>}

UploadRequests ==
    {[NoReq EXCEPT !.method = "POST", !.action = "upload", !.hasFile = TRUE,
                   !.name = u[1], !.payload = u[2]] : u \in Uploads}

\* POST requests that fail one of the checks of lines 134-149
InvalidPosts ==
    LET ok == [NoReq EXCEPT !.method = "POST", !.action = "upload", !.hasFile = TRUE,
                            !.name = <<"n">>,
                            !.payload = [data |-> "p", size |-> 1, entries |-> NotArchive]]
    IN  {[ok EXCEPT !.action = "delete"],
         [ok EXCEPT !.hasFile = FALSE],
         [ok EXCEPT !.error = 1],
         [ok EXCEPT !.payload.size = maxSize + 1]}

GetRequests ==
    {[NoReq EXCEPT !.method = "GET", !.hasId = TRUE, !.rawId = r, !.info = i] :
        r \in RawIds, i \in BOOLEAN}

\* neither POST nor GET with an id
OtherRequests == {[NoReq EXCEPT !.method = "PUT"], [NoReq EXCEPT !.method = "GET"]}

(***************************************************************************)
(* Metadata files.  A file holds the JSON of a record, or nothing yet      *)
(* (opened and truncated, not yet written), or bytes json_decode rejects.  *)
(* len is the length of what was written since the file was last           *)
(* truncated and fds the processes that hold it open for writing.          *)
(***************************************************************************)
NullMeta ==
    [id |-> <<>>, filename |-> <<>>, storedName |-> <<>>, path |-> <<>>,
     size |-> 0, expiresAt |-> 0, uploadedAt |-> 0]

RECURSIVE Digits(_)
Digits(n) == IF n < 10 THEN 1 ELSE 1 + Digits(n \div 10)

\* the length of json_encode($meta), up to the part that is the same for every record
JsonLen(rec) ==
    Len(rec.filename) + Len(rec.storedName) + Len(rec.path) + Digits(rec.size)

\* json_decode((string) file_get_contents($metaPath), true)
DecodeMeta(files, id) ==
    IF id \in DOMAIN files /\ files[id].kind = "json" THEN files[id].rec ELSE NullMeta

\* fopen($metaPath, 'wb') by process p: creates the file or truncates it
OpenMeta(files, id, p) ==
    IF id \in DOMAIN files
    THEN [files EXCEPT ![id] = [kind |-> "empty", rec |-> NullMeta, len |-> 0,
                                fds |-> files[id].fds \cup {p}]]
    ELSE [i \in DOMAIN files \cup {id} |->
            IF i = id THEN [kind |-> "empty", rec |-> NullMeta, len |-> 0, fds |-> {p}]
            ELSE files[i]]

\* fwrite of the whole JSON at offset 0, and fclose, by process p.  When the
\* file p opened has been unlinked since, the bytes go to the orphaned inode.
\* Bytes another writer left behind the end of p's JSON stay in the file.
WriteMeta(files, id, p, rec) ==
    IF id \in DOMAIN files /\ p \in files[id].fds
    THEN [files EXCEPT ![id] =
            IF JsonLen(rec) >= files[id].len
            THEN [kind |-> "json", rec |-> rec, len |-> JsonLen(rec),
                  fds |-> files[id].fds \ {p}]
            ELSE [kind |-> "corrupt", rec |-> NullMeta, len |-> files[id].len,
                  fds |-> files[id].fds \ {p}]]
    ELSE files

\* unlink of a path: the path no longer resolves; absence is ignored (@unlink)
Unlink(files, name) == [i \in DOMAIN files \ {name} |-> files[i]]

\* an upload whose bytes never reach the storage directory
PutNothing(files, path, content) == files

\* rename of the uploaded bytes onto path (replaces what is there)
PutFile(files, path, content) ==
    [i \in DOMAIN files \cup {path} |-> IF i = path THEN content ELSE files[i]]

(***************************************************************************)
(* Responses.                                                              *)
(***************************************************************************)
NoResp ==
    [status |-> 0, success |-> FALSE, id |-> <<>>, filename |-> <<>>, size |-> 0,
     expiresAt |-> 0, uploadedAt |-> 0, isZip |-> FALSE, preview |-> NoPreview,
     merged |-> FALSE, contentLength |-> 0, hdrFilename |-> <<>>, body |-> NoPayload]

\* jsonResponse(['success' => false, ...], $status) and the plain-text failures
ErrorResp(status) == [NoResp EXCEPT !.status = status]

NotArrived == [n |-> 0, expired |-> {}]

NoLoc == [list |-> {}, now |-> 0, cur |-> <<>>, rec |-> NullMeta]

(***************************************************************************)
(* The download panel (DownloadBox.tsx).  Its state variables, the ref     *)
(* previewRequestRef, the pending debounce timer (the id it will ask for,  *)
(* <<>> when none is pending), the Info requests awaiting their response   *)
(* and the id of the download under way.  asked (in fileInfo) and dropped  *)
(* are history: the id the held details were asked for, and the tokens of  *)
(* the responses that were discarded.                                      *)
(***************************************************************************)
NoInfo == [id |-> <<>>, asked |-> <<>>]
NoError == "null"

NoUi ==
    [downloadId |-> <<>>, fileInfo |-> NoInfo, infoError |-> NoError,
     isFetchingInfo |-> FALSE, isDownloading |-> FALSE, previewRequestRef |-> 0,
     timer |-> <<>>, inflight |-> {}, downloading |-> <<>>, dropped |-> {}]

VARIABLES
    clock,      \* the wall clock, in ticks
    dataFiles,  \* the upload directory: path -> content
    metaFiles,  \* the metadata directory: id -> metadata file
    pc,         \* pc[p]: where process p is in the script
    req,        \* req[p]: the request p serves
    loc,        \* loc[p]: the script's variables
    resp,       \* resp[p]: the response p has sent
    started,    \* number of requests started
    moved,      \* number of uploads that reached move_uploaded_file
    issued,     \* history: the uploads answered with success, in order
    arrived,    \* history: arrived[p], what was the case when p's sweep began
    unlinked,   \* history: the data paths a cleanup has unlinked
    ui          \* the download panel of one browser: its state, timer and requests

\* the variables of the server
server == <<clock, dataFiles, metaFiles, pc, req, loc, resp, started, moved, issued,
            arrived, unlinked>>

vars == <<server, ui>>

Init ==
    /\ clock = 0
    /\ dataFiles = <<>>
    /\ metaFiles = <<>>
    /\ pc = [p \in Procs |-> "idle"]
    /\ req = [p \in Procs |-> NoReq]
    /\ loc = [p \in Procs |-> NoLoc]
    /\ resp = [p \in Procs |-> NoResp]
    /\ started = 0
    /\ moved = 0
    /\ issued = <<>>
    /\ arrived = [p \in Procs |-> NotArrived]
    /\ unlinked = {}
    /\ ui = NoUi

(***************************************************************************)
(* The clock.                                                              *)
(***************************************************************************)
\* the steps that read the clock, besides the glob that finds a metadata file
ClockReads == {"up_expires", "up_stat", "get_expiry"}

\* Nothing but a clock read observes the time that passes, and the exit of a
\* process is seen by nobody: the clock advances only when a process is about
\* to read it, and a process that has answered exits before anything else
\* happens.  Every behaviour of the processes is kept.
Observed ==
    \E p \in Procs :
        pc[p] \in ClockReads \/ (pc[p] = "sweep_glob" /\ DOMAIN metaFiles # {})
NoneDone == \A p \in Procs : pc[p] # "done"

Tick ==
    /\ Observed /\ NoneDone
    /\ (clock + 1) % TTL < MaxSmallTicks
    /\ clock' = clock + 1
    /\ UNCHANGED <<ui, dataFiles, metaFiles, pc, req, loc, resp, started, moved, issued, arrived, unlinked>>

\* One tick short of the retention period passes between requests: no
\* request stays in the script for 48 hours.
Jump ==
    /\ \A p \in Procs : pc[p] = "idle"
    /\ (clock + 1) \div TTL < MaxJumps
    /\ clock' = clock + TTL - 1
    /\ UNCHANGED <<ui, dataFiles, metaFiles, pc, req, loc, resp, started, moved, issued, arrived, unlinked>>

\* process p moves to pc value to, everything else of the processes as given
Goto(p, to) == pc' = [pc EXCEPT ![p] = to]

Reply(p, r) == /\ resp' = [resp EXCEPT ![p] = r]
               /\ Goto(p, "done")

(***************************************************************************)
(* A request arrives (lines 11-19): the preflight is answered at once,     *)
(* every other request goes on to cleanupExpired.                          *)
(***************************************************************************)
\* the processes are interchangeable: a request goes to the first free one
FreeProc(p) == \A q \in 1..(p - 1) : pc[q] # "idle"

Preflight(p) ==
    /\ pc[p] = "idle"
    /\ NoneDone
    /\ FreeProc(p)
    /\ started < MaxRequests
    /\ started' = started + 1
    /\ req' = [req EXCEPT ![p] = [NoReq EXCEPT !.method = "OPTIONS"]]
    /\ Reply(p, ErrorResp(204))
    /\ UNCHANGED <<ui, clock, dataFiles, metaFiles, loc, moved, issued, arrived, unlinked>>

\* a script that goes to the handlers without the call of cleanupExpired
BeginNoSweep(p) ==
    /\ pc[p] = "idle"
    /\ NoneDone
    /\ FreeProc(p)
    /\ started < MaxRequests
    /\ started' = started + 1
    /\ Goto(p, "handle")
    /\ UNCHANGED <<ui, clock, dataFiles, metaFiles, req, loc, resp, moved, issued, arrived, unlinked>>

\* the script reads nothing of the request before line 133: the model draws
\* the request there
Begin(p) ==
    /\ pc[p] = "idle"
    /\ NoneDone
    /\ FreeProc(p)
    /\ started < MaxRequests
    /\ started' = started + 1
    /\ Goto(p, "sweep_glob")
    /\ UNCHANGED <<ui, clock, dataFiles, metaFiles, req, loc, resp, moved, issued, arrived, unlinked>>

(***************************************************************************)
(* cleanupExpired (lines 107-129).                                         *)
(***************************************************************************)
\* glob() returns the paths sorted: the loop takes the ids in this order
IdOrder == <<<<"a">>, <<"b">>>>

FirstOf(ids) == IdOrder[CHOOSE i \in 1..Len(IdOrder) :
                    /\ IdOrder[i] \in ids
                    /\ \A j \in 1..(i - 1) : IdOrder[j] \notin ids]

\* $expires < $now
Expired(expiresAt, now) == expiresAt < now

\* the ids whose record is whole (metadata and bytes) and has expiresAt before now
ExpiredIds(now) ==
    {id \in DOMAIN metaFiles :
        /\ metaFiles[id].kind = "json"
        /\ metaFiles[id].rec.path \in DOMAIN dataFiles
        /\ metaFiles[id].rec.expiresAt < now}

\* lines 109-114: glob, return when there is no metadata file, $now.  A file
\* that appears between the glob and the clock read cannot have expired by
\* $now and one that disappears is skipped by the loop: the two are one step.
SweepGlob(p) ==
    /\ pc[p] = "sweep_glob"
    /\ NoneDone
    /\ arrived' = [arrived EXCEPT ![p] = [n |-> Len(issued),
                                          expired |-> ExpiredIds(clock)]]
    /\ IF DOMAIN metaFiles = {}
       THEN Goto(p, "handle") /\ UNCHANGED loc
       ELSE /\ loc' = [loc EXCEPT ![p].list = DOMAIN metaFiles, ![p].now = clock]
            /\ Goto(p, "sweep_read")
    /\ UNCHANGED <<ui, clock, dataFiles, metaFiles, req, resp, started, moved, issued, unlinked>>

\* lines 115-122: the next metadata file is read and its expiry decided
SweepRead(p) ==
    /\ pc[p] = "sweep_read"
    /\ NoneDone
    /\ IF loc[p].list = {}
       THEN /\ loc' = [loc EXCEPT ![p] = NoLoc]
            /\ Goto(p, "handle")
       ELSE LET id   == FirstOf(loc[p].list)
                data == DecodeMeta(metaFiles, id)
            IN  IF data # NullMeta /\ Expired(data.expiresAt, loc[p].now)
                THEN /\ loc' = [loc EXCEPT ![p].cur = id, ![p].rec = data]
                     /\ Goto(p, "sweep_unlink_data")
                ELSE /\ loc' = [loc EXCEPT ![p].list = @ \ {id}]
                     /\ UNCHANGED pc
    /\ UNCHANGED <<ui, clock, dataFiles, metaFiles, req, resp, started, moved, issued, arrived, unlinked>>

\* a sweep that goes on to the metadata file and leaves the backing file
SweepUnlinkDataSkips(p) ==
    /\ pc[p] = "sweep_unlink_data"
    /\ NoneDone
    /\ Goto(p, "sweep_unlink_meta")
    /\ UNCHANGED <<ui, clock, dataFiles, metaFiles, req, loc, resp, started, moved, issued,
                   arrived, unlinked>>

\* lines 123-125: the backing file goes first
SweepUnlinkData(p) ==
    /\ pc[p] = "sweep_unlink_data"
    /\ NoneDone
    /\ dataFiles' = Unlink(dataFiles, loc[p].rec.path)
    /\ unlinked' = unlinked \cup (DOMAIN dataFiles \cap {loc[p].rec.path})
    /\ Goto(p, "sweep_unlink_meta")
    /\ UNCHANGED <<ui, clock, metaFiles, req, loc, resp, started, moved, issued, arrived>>

\* a loop that is left after the first record it removes
SweepUnlinkMetaStops(p) ==
    /\ pc[p] = "sweep_unlink_meta"
    /\ NoneDone
    /\ metaFiles' = Unlink(metaFiles, loc[p].cur)
    /\ loc' = [loc EXCEPT ![p].list = {}, ![p].cur = <<>>, ![p].rec = NullMeta]
    /\ Goto(p, "sweep_read")
    /\ UNCHANGED <<ui, clock, dataFiles, req, resp, started, moved, issued, arrived, unlinked>>

\* line 126: then the metadata file
SweepUnlinkMeta(p) ==
    /\ pc[p] = "sweep_unlink_meta"
    /\ NoneDone
    /\ metaFiles' = Unlink(metaFiles, loc[p].cur)
    /\ loc' = [loc EXCEPT ![p].list = @ \ {loc[p].cur}, ![p].cur = <<>>,
                          ![p].rec = NullMeta]
    /\ Goto(p, "sweep_read")
    /\ UNCHANGED <<ui, clock, dataFiles, req, resp, started, moved, issued, arrived, unlinked>>

(***************************************************************************)
(* POST: the upload handler (lines 133-184).                               *)
(***************************************************************************)
\* a size check that refuses the largest size as well
PostCheckAtLimit(r) ==
    IF r.action # "upload" THEN 400
    ELSE IF ~r.hasFile THEN 400
    ELSE IF r.error # UPLOAD_ERR_OK THEN 400
    ELSE IF r.payload.size >= maxSize THEN 413
    ELSE 0

\* checks that look at the size before anything else
PostCheckSizeFirst(r) ==
    IF r.payload.size > maxSize THEN 413
    ELSE IF r.action # "upload" THEN 400
    ELSE IF ~r.hasFile THEN 400
    ELSE IF r.error # UPLOAD_ERR_OK THEN 400
    ELSE 0

\* lines 134-149: the status of the first check that fails, 0 when none does
PostCheck(r) ==
    IF r.action # "upload" THEN 400
    ELSE IF ~r.hasFile THEN 400
    ELSE IF r.error # UPLOAD_ERR_OK THEN 400
    ELSE IF r.payload.size > maxSize THEN 413
    ELSE 0

\* lines 134-149 on a request of the set requests: a check fails
PostInvalidOf(p, requests) ==
    /\ pc[p] = "handle"
    /\ NoneDone
    /\ \E r \in requests :
          /\ PostCheck(r) # 0
          /\ req' = [req EXCEPT ![p] = r]
          /\ Reply(p, ErrorResp(PostCheck(r)))
    /\ UNCHANGED <<ui, clock, dataFiles, metaFiles, loc, started, moved, issued, arrived, unlinked>>

PostInvalid(p) == PostInvalidOf(p, InvalidPosts \cup UploadRequests)

\* $originalName = $upload['name'] ?: 'fileshare.bin'
OriginalName(name) == Elvis(name, FallbackName)

\* lines 151-166: the record as far as it is known before the file is in place
NewMeta(id, name) ==
    LET originalName == OriginalName(name)
        storedName   == StoredName(id, SafeName(originalName))
    IN  [NullMeta EXCEPT !.id = id, !.filename = originalName,
                         !.storedName = storedName, !.path = TargetPath(storedName)]

\* the ids the state mentions
KnownIds ==
    {id \in GenIds :
        \/ id \in DOMAIN metaFiles
        \/ \E k \in 1..Len(issued) : issued[k].id = id
        \/ \E path \in DOMAIN dataFiles :
              SubSeq(path, 1, Len(TargetPath(id))) = TargetPath(id)
        \/ \E p \in Procs :
              \/ id \in loc[p].list \/ loc[p].cur = id \/ loc[p].rec.id = id
              \/ SanitizeId(req[p].rawId) = id \/ resp[p].id = id}

\* $id = bin2hex(random_bytes(6)): any id.  The ids are interchangeable, so of
\* the ids the state does not mention the model draws the first only.
DrawIds == KnownIds \cup (IF KnownIds = GenIds THEN {} ELSE {FirstOf(GenIds \ KnownIds)})

\* lines 151-157 on a request of the set requests: names, a fresh id, and
\* move_uploaded_file succeeds
PostMoveOf(p, requests) ==
    /\ pc[p] = "handle"
    /\ NoneDone
    /\ \E r \in requests, id \in DrawIds :
          LET meta == NewMeta(id, r.name)
          IN  /\ PostCheck(r) = 0
              /\ req' = [req EXCEPT ![p] = r]
              /\ dataFiles' = PutFile(dataFiles, meta.path, r.payload)
              /\ loc' = [loc EXCEPT ![p].cur = id, ![p].rec = meta]
    /\ moved < MaxUploads
    /\ moved' = moved + 1
    /\ Goto(p, "up_expires")
    /\ UNCHANGED <<ui, clock, metaFiles, resp, started, issued, arrived, unlinked>>

PostMove(p) == PostMoveOf(p, InvalidPosts \cup UploadRequests)

\* lines 157-159: move_uploaded_file fails
PostMoveFail(p) ==
    /\ pc[p] = "handle"
    /\ NoneDone
    /\ \E r \in InvalidPosts \cup UploadRequests :
          /\ PostCheck(r) = 0
          /\ req' = [req EXCEPT ![p] = r]
    /\ Reply(p, ErrorResp(500))
    /\ UNCHANGED <<ui, clock, dataFiles, metaFiles, loc, started, moved, issued, arrived, unlinked>>

\* line 161: $expiresAt from the clock
UpExpires(p) ==
    /\ pc[p] = "up_expires"
    /\ NoneDone
    /\ loc' = [loc EXCEPT ![p].rec.expiresAt = Atom(clock + TTL)]
    /\ Goto(p, "up_stat")
    /\ UNCHANGED <<ui, clock, dataFiles, metaFiles, req, resp, started, moved, issued, arrived, unlinked>>

\* filesize($path): false (here -1) when the path does not resolve
FileSize(files, path) == IF path \in DOMAIN files THEN files[path].size ELSE 0 - 1

\* lines 167-169: filesize($targetPath), and uploadedAt from the clock again
UpStat(p) ==
    /\ pc[p] = "up_stat"
    /\ NoneDone
    /\ loc' = [loc EXCEPT ![p].rec.size = FileSize(dataFiles, loc[p].rec.path),
                          ![p].rec.uploadedAt = Atom(clock)]
    /\ Goto(p, "up_open")
    /\ UNCHANGED <<ui, clock, dataFiles, metaFiles, req, resp, started, moved, issued, arrived, unlinked>>

\* lines 174-183
UploadOk(meta) ==
    [NoResp EXCEPT !.status = 200, !.success = TRUE, !.id = meta.id,
                   !.filename = meta.filename, !.expiresAt = meta.expiresAt,
                   !.size = meta.size]

\* what the history keeps of an upload answered with success
Issue(r, meta, stored) ==
    [id |-> meta.id, name |-> r.name, payload |-> r.payload, path |-> meta.path,
     expiresAt |-> meta.expiresAt, uploadedAt |-> meta.uploadedAt,
     stored |-> stored]

\* line 172, first half: file_put_contents opens (creates or truncates) the file
UpOpen(p) ==
    /\ pc[p] = "up_open"
    /\ NoneDone
    /\ metaFiles' = OpenMeta(metaFiles, loc[p].cur, p)
    /\ Goto(p, "up_write")
    /\ UNCHANGED <<ui, clock, dataFiles, req, loc, resp, started, moved, issued, arrived, unlinked>>

\* line 172, second half, and lines 174-183: the JSON is written, the file
\* closed, the client answered
UpWrite(p) ==
    /\ pc[p] = "up_write"
    /\ NoneDone
    /\ metaFiles' = WriteMeta(metaFiles, loc[p].cur, p, loc[p].rec)
    /\ issued' = Append(issued, Issue(req[p], loc[p].rec,
                         DecodeMeta(metaFiles', loc[p].cur) = loc[p].rec))
    /\ Reply(p, UploadOk(loc[p].rec))
    /\ UNCHANGED <<ui, clock, dataFiles, req, loc, started, moved, arrived, unlinked>>

\* line 172 fails (its result is not looked at), lines 174-183
UpOpenFail(p) ==
    /\ pc[p] = "up_open"
    /\ NoneDone
    /\ issued' = Append(issued, Issue(req[p], loc[p].rec, FALSE))
    /\ Reply(p, UploadOk(loc[p].rec))
    /\ UNCHANGED <<ui, clock, dataFiles, metaFiles, req, loc, started, moved, arrived, unlinked>>

(***************************************************************************)
(* GET with an id: info and download (lines 186-258).                      *)
(***************************************************************************)
IsGet(r) == r.method = "GET" /\ r.hasId

\* lines 188-196: nothing (or "0") is left of the id
GetInvalidId(p) ==
    /\ pc[p] = "handle"
    /\ NoneDone
    /\ \E r \in GetRequests :
          /\ ~Truthy(SanitizeId(r.rawId))
          /\ req' = [req EXCEPT ![p] = r]
    /\ Reply(p, ErrorResp(400))
    /\ UNCHANGED <<ui, clock, dataFiles, metaFiles, loc, started, moved, issued, arrived, unlinked>>

\* a lookup that fails with an error when the metadata file is missing
GetNotFoundFails(p) ==
    /\ pc[p] = "handle"
    /\ NoneDone
    /\ \E r \in GetRequests :
          /\ Truthy(SanitizeId(r.rawId))
          /\ SanitizeId(r.rawId) \notin DOMAIN metaFiles
          /\ req' = [req EXCEPT ![p] = r]
    /\ Reply(p, ErrorResp(500))
    /\ UNCHANGED <<ui, clock, dataFiles, metaFiles, loc, started, moved, issued, arrived, unlinked>>

\* lines 198-206: no metadata file of that name
GetNotFound(p) ==
    /\ pc[p] = "handle"
    /\ NoneDone
    /\ \E r \in GetRequests :
          /\ Truthy(SanitizeId(r.rawId))
          /\ SanitizeId(r.rawId) \notin DOMAIN metaFiles
          /\ req' = [req EXCEPT ![p] = r]
    /\ Reply(p, ErrorResp(404))
    /\ UNCHANGED <<ui, clock, dataFiles, metaFiles, loc, started, moved, issued, arrived, unlinked>>

\* line 199: the metadata file exists
GetFound(p) ==
    /\ pc[p] = "handle"
    /\ NoneDone
    /\ \E r \in GetRequests :
          /\ Truthy(SanitizeId(r.rawId))
          /\ SanitizeId(r.rawId) \in DOMAIN metaFiles
          /\ req' = [req EXCEPT ![p] = r]
          /\ loc' = [loc EXCEPT ![p].cur = SanitizeId(r.rawId)]
    /\ Goto(p, "get_read")
    /\ UNCHANGED <<ui, clock, dataFiles, metaFiles, resp, started, moved, issued, arrived, unlinked>>

\* a test that forgets to look for the backing file
InconsistentNoFileTest(meta, files) == meta = NullMeta \/ ~Truthy(meta.path)

\* !$meta || empty($meta['path']) || !file_exists($meta['path'])
Inconsistent(meta, files) ==
    meta = NullMeta \/ ~Truthy(meta.path) \/ meta.path \notin DOMAIN files

\* lines 208-209: the metadata is read and the backing file looked for
GetRead(p) ==
    /\ pc[p] = "get_read"
    /\ NoneDone
    /\ LET meta == DecodeMeta(metaFiles, loc[p].cur)
       IN  /\ loc' = [loc EXCEPT ![p].rec = meta]
           /\ IF Inconsistent(meta, dataFiles)
              THEN Goto(p, "get_unlink_stray")
              ELSE Goto(p, "get_expiry")
    /\ UNCHANGED <<ui, clock, dataFiles, metaFiles, req, resp, started, moved, issued, arrived, unlinked>>

\* lines 210-216
GetUnlinkStray(p) ==
    /\ pc[p] = "get_unlink_stray"
    /\ NoneDone
    /\ metaFiles' = Unlink(metaFiles, loc[p].cur)
    /\ Reply(p, ErrorResp(404))
    /\ UNCHANGED <<ui, clock, dataFiles, req, loc, started, moved, issued, arrived, unlinked>>

\* lines 219-220: the expiry is compared with the clock
GetExpiry(p) ==
    /\ pc[p] = "get_expiry"
    /\ NoneDone
    /\ loc' = [loc EXCEPT ![p].now = clock]
    /\ IF Expired(loc[p].rec.expiresAt, clock)
       THEN Goto(p, "get_exp_unlink_data")
       ELSE Goto(p, "get_serve")
    /\ UNCHANGED <<ui, clock, dataFiles, metaFiles, req, resp, started, moved, issued, arrived, unlinked>>

\* line 221
GetExpUnlinkData(p) ==
    /\ pc[p] = "get_exp_unlink_data"
    /\ NoneDone
    /\ dataFiles' = Unlink(dataFiles, loc[p].rec.path)
    /\ unlinked' = unlinked \cup (DOMAIN dataFiles \cap {loc[p].rec.path})
    /\ Goto(p, "get_exp_unlink_meta")
    /\ UNCHANGED <<ui, clock, metaFiles, req, loc, resp, started, moved, issued, arrived>>

\* lines 222-228
GetExpUnlinkMeta(p) ==
    /\ pc[p] = "get_exp_unlink_meta"
    /\ NoneDone
    /\ metaFiles' = Unlink(metaFiles, loc[p].cur)
    /\ Reply(p, ErrorResp(410))
    /\ UNCHANGED <<ui, clock, dataFiles, req, loc, started, moved, issued, arrived, unlinked>>

\* a previewer that reads the directory without testing the result of open
buildZipPreviewUnchecked(files, filePath, limit) ==
    IF filePath \notin DOMAIN files THEN NoPreview
    ELSE LET dir == files[filePath].entries
             st  == PreviewScan(dir, 1, Len(dir), NoScan, limit)
         IN  [zipContents |-> st.entries, zipTruncated |-> st.truncated]

\* buildZipPreview($filePath, $limit)
buildZipPreview(files, filePath, limit) ==
    IF filePath \notin DOMAIN files \/ ~IsArchive(files[filePath]) THEN NoPreview
    ELSE LET dir == files[filePath].entries
             st  == PreviewScan(dir, 1, Len(dir), NoScan, limit)
         IN  [zipContents |-> st.entries, zipTruncated |-> st.truncated]

\* lines 232-249
InfoOk(meta, files) ==
    LET isZip == isZipFile(meta.path) \/ isZipFile(meta.storedName)
    IN  [NoResp EXCEPT !.status = 200, !.success = TRUE, !.id = meta.id,
                       !.filename = meta.filename, !.size = meta.size,
                       !.expiresAt = meta.expiresAt, !.uploadedAt = meta.uploadedAt,
                       !.isZip = isZip, !.merged = isZip,
                       !.preview = IF isZip
                                   THEN buildZipPreview(files, meta.path, previewLimit)
                                   ELSE NoPreview]

\* lines 231-250
GetServeInfo(p) ==
    /\ pc[p] = "get_serve"
    /\ NoneDone
    /\ req[p].info
    /\ Reply(p, InfoOk(loc[p].rec, dataFiles))
    /\ UNCHANGED <<ui, clock, dataFiles, metaFiles, req, loc, started, moved, issued, arrived, unlinked>>

\* lines 252-256: the headers from the metadata, the body from readfile, which
\* sends nothing when the path does not resolve
DownloadOk(meta, files) ==
    [NoResp EXCEPT !.status = 200, !.contentLength = meta.size,
                   !.hdrFilename = meta.filename,
                   !.body = IF meta.path \in DOMAIN files THEN files[meta.path]
                            ELSE NoPayload]

GetServeDownload(p) ==
    /\ pc[p] = "get_serve"
    /\ NoneDone
    /\ ~req[p].info
    /\ Reply(p, DownloadOk(loc[p].rec, dataFiles))
    /\ UNCHANGED <<ui, clock, dataFiles, metaFiles, req, loc, started, moved, issued, arrived, unlinked>>

\* line 260
Unsupported(p) ==
    /\ pc[p] = "handle"
    /\ NoneDone
    /\ \E r \in OtherRequests :
          /\ r.method # "POST"
          /\ ~IsGet(r)
          /\ req' = [req EXCEPT ![p] = r]
    /\ Reply(p, ErrorResp(405))
    /\ UNCHANGED <<ui, clock, dataFiles, metaFiles, loc, started, moved, issued, arrived, unlinked>>

\* exit: the process is free for the next request
Finish(p) ==
    /\ pc[p] = "done"
    /\ pc' = [pc EXCEPT ![p] = "idle"]
    /\ req' = [req EXCEPT ![p] = NoReq]
    /\ loc' = [loc EXCEPT ![p] = NoLoc]
    /\ resp' = [resp EXCEPT ![p] = NoResp]
    /\ arrived' = [arrived EXCEPT ![p] = NotArrived]
    /\ UNCHANGED <<ui, clock, dataFiles, metaFiles, started, moved, issued, unlinked>>

\* fileUtils.ts downloadFile: the name the browser saves the download under
ClientFilename(r, id) ==
    IF r.hdrFilename # <<>> THEN r.hdrFilename
    ELSE <<"F","i","l","e","S","h","a","r","e","V","1","-">> \o id

Next ==
    \/ Tick
    \/ Jump
    \/ \E p \in Procs :
          \/ Preflight(p)
          \/ Begin(p)
          \/ SweepGlob(p)
          \/ SweepRead(p)
          \/ SweepUnlinkData(p)
          \/ SweepUnlinkMeta(p)
          \/ PostInvalid(p)
          \/ PostMove(p)
          \/ PostMoveFail(p)
          \/ UpExpires(p)
          \/ UpStat(p)
          \/ UpOpen(p)
          \/ UpOpenFail(p)
          \/ UpWrite(p)
          \/ GetInvalidId(p)
          \/ GetNotFound(p)
          \/ GetFound(p)
          \/ GetRead(p)
          \/ GetUnlinkStray(p)
          \/ GetExpiry(p)
          \/ GetExpUnlinkData(p)
          \/ GetExpUnlinkMeta(p)
          \/ GetServeInfo(p)
          \/ GetServeDownload(p)
          \/ Unsupported(p)
          \/ Finish(p)

Spec == Init /\ [][Next]_vars

(***************************************************************************)
(* Info and Download on a stored archive.  The upload directory holds one  *)
(* uploaded zip file, of any of the directories below, with its record;    *)
(* one process serves GET requests.                                        *)
(***************************************************************************)
FileEntry(k) == [name |-> <<"f">>, size |-> k]
DirEntry == [name |-> <<"d", "/">>, size |-> 0]

\* a central directory of n files, the k-th of size k, with d directory
\* placeholders before the file at position at (behind the last when at = n + 1)
ArchiveDir(n, d, at) ==
    [i \in 1..(n + d) |->
        IF i < at THEN FileEntry(i)
        ELSE IF i < at + d THEN DirEntry
        ELSE FileEntry(i - d)]

ArchiveSizes == {0, 1, 50, previewLimit - 1, previewLimit, previewLimit + 1, 500}

ArchiveDirs ==
    {ArchiveDir(n, d, at) :
        n \in ArchiveSizes, d \in 0..MaxDirs,
        at \in {1, previewLimit, previewLimit + 1, previewLimit + 2}}

ZipName == <<"x", ".", "z", "i", "p">>

ZipMeta ==
    [NewMeta(<<"a">>, ZipName) EXCEPT !.size = 1, !.expiresAt = Atom(TTL),
                                       !.uploadedAt = Atom(0)]

ZipRequest(dir) ==
    [NoReq EXCEPT !.method = "POST", !.action = "upload", !.hasFile = TRUE,
                  !.name = ZipName,
                  !.payload = [data |-> "z", size |-> 1, entries |-> dir]]

ZipInit ==
    /\ clock = 0
    /\ \E dir \in ArchiveDirs :
          /\ dataFiles = PutFile(<<>>, ZipMeta.path, ZipRequest(dir).payload)
          /\ issued = <<Issue(ZipRequest(dir), ZipMeta, TRUE)>>
    /\ metaFiles = WriteMeta(OpenMeta(<<>>, <<"a">>, 1), <<"a">>, 1, ZipMeta)
    /\ pc = [p \in Procs |-> "idle"]
    /\ req = [p \in Procs |-> NoReq]
    /\ loc = [p \in Procs |-> NoLoc]
    /\ resp = [p \in Procs |-> NoResp]
    /\ arrived = [p \in Procs |-> NotArrived]
    /\ started = 0
    /\ moved = 1
    /\ unlinked = {}
    /\ ui = NoUi

ZipNext ==
    \/ Begin(1)
    \/ SweepGlob(1)
    \/ SweepRead(1)
    \/ GetInvalidId(1)
    \/ GetNotFound(1)
    \/ GetFound(1)
    \/ GetRead(1)
    \/ GetExpiry(1)
    \/ GetServeInfo(1)
    \/ GetServeDownload(1)
    \/ Finish(1)

SpecZip == ZipInit /\ [][ZipNext]_vars

(***************************************************************************)
(* Info and Download on one stored object of any name and any content: the *)
(* name may or may not have the archive extension, the bytes may or may    *)
(* not be an archive.                                                      *)
(***************************************************************************)
StoredNames ==
    {ZipName,
     <<"x", ".", "Z", "i", "P">>,
     <<"x", ".", "t", "x", "t">>,
     <<"z", "i", "p">>,
     <<"x", ".", "z", "i", "p", " ">>}

StoredContents ==
    {NotArchive, ArchiveDir(0, 0, 1), ArchiveDir(2, 1, 1),
     ArchiveDir(previewLimit + 1, 0, 1)}

StoredMeta(name) ==
    [NewMeta(<<"a">>, name) EXCEPT !.size = 1, !.expiresAt = Atom(TTL),
                                    !.uploadedAt = Atom(0)]

StoredRequest(name, entries) ==
    [NoReq EXCEPT !.method = "POST", !.action = "upload", !.hasFile = TRUE,
                  !.name = name,
                  !.payload = [data |-> "z", size |-> 1, entries |-> entries]]

InfoInit ==
    /\ clock = 0
    /\ \E name \in StoredNames, entries \in StoredContents :
          /\ dataFiles = PutFile(<<>>, StoredMeta(name).path,
                                 StoredRequest(name, entries).payload)
          /\ metaFiles = WriteMeta(OpenMeta(<<>>, <<"a">>, 1), <<"a">>, 1,
                                   StoredMeta(name))
          /\ issued = <<Issue(StoredRequest(name, entries), StoredMeta(name), TRUE)>>
    /\ pc = [p \in Procs |-> "idle"]
    /\ req = [p \in Procs |-> NoReq]
    /\ loc = [p \in Procs |-> NoLoc]
    /\ resp = [p \in Procs |-> NoResp]
    /\ arrived = [p \in Procs |-> NotArrived]
    /\ started = 0
    /\ moved = 1
    /\ unlinked = {}
    /\ ui = NoUi

SpecInfo == InfoInit /\ [][ZipNext]_vars

(***************************************************************************)
(* Uploads under any filename.  One process stores uploads whose names     *)
(* hold path separators, dots, the separator of the stored name, or        *)
(* nothing at all.                                                         *)
(***************************************************************************)
UploadNames ==
    {<<"n">>, <<>>, <<"0">>, <<".", ".">>, <<"/">>, <<"/", "e">>,
     <<".", ".", "/", "x">>, <<"c", "\\", "x">>, <<"_", "_", "n">>,
     <<"b", "_", "_", "n">>, <<"n", " ">>}

NamedRequests ==
    {[NoReq EXCEPT !.method = "POST", !.action = "upload", !.hasFile = TRUE,
                   !.name = name,
                   !.payload = [data |-> "p", size |-> 1, entries |-> NotArchive]] :
        name \in UploadNames}

NamedPostMove(p) == PostMoveOf(p, NamedRequests)

NamedNext ==
    \/ Begin(1)
    \/ SweepGlob(1)
    \/ SweepRead(1)
    \/ NamedPostMove(1)
    \/ UpExpires(1)
    \/ UpStat(1)
    \/ UpOpen(1)
    \/ UpWrite(1)
    \/ Finish(1)

SpecNamed == Init /\ [][NamedNext]_vars

(***************************************************************************)
(* The download panel of one browser.  A change of the input field is one  *)
(* step with the effects it triggers; a request's response arrives in a    *)
(* later step, in any order, as a success or as a failure.                 *)
(***************************************************************************)
\* what the user may type or App may prefill
IdInputs == {<<>>, <<" ">>, <<"a">>, <<"a", " ">>, <<"b">>}

RECURSIVE TrimStart(_)
TrimStart(s) == IF s # <<>> /\ Head(s) = " " THEN TrimStart(Tail(s)) ELSE s

RECURSIVE TrimEnd(_)
TrimEnd(s) ==
    IF s # <<>> /\ s[Len(s)] = " " THEN TrimEnd(SubSeq(s, 1, Len(s) - 1)) ELSE s

\* String.prototype.trim
Trim(s) == TrimEnd(TrimStart(s))

\* the panel after its mount: the debounce effect has run once on the empty id
ClientInit ==
    /\ ui = [NoUi EXCEPT !.previewRequestRef = 1]
    /\ clock = 0
    /\ dataFiles = <<>>
    /\ metaFiles = <<>>
    /\ pc = [p \in Procs |-> "idle"]
    /\ req = [p \in Procs |-> NoReq]
    /\ loc = [p \in Procs |-> NoLoc]
    /\ resp = [p \in Procs |-> NoResp]
    /\ started = 0
    /\ moved = 0
    /\ issued = <<>>
    /\ arrived = [p \in Procs |-> NotArrived]
    /\ unlinked = {}

\* a change of the id that leaves the held details alone
setDownloadIdKeepsInfo(v) ==
    /\ v # ui.downloadId
    /\ ui.previewRequestRef < MaxTokens
    /\ ui' = [ui EXCEPT !.downloadId = v,
                        !.fileInfo = IF Trim(v) = <<>> THEN NoInfo ELSE @,
                        !.infoError = IF Trim(v) = <<>> THEN NoError ELSE @,
                        !.previewRequestRef = @ + 1,
                        !.isFetchingInfo = FALSE,
                        !.timer = Trim(v)]
    /\ UNCHANGED server

\* lines 20-24 and 145: the id changes to v; the effects of lines 26-29 and
\* 79-97 run: details and error are cleared, the pending timer is cancelled,
\* the requests under way are superseded, a new timer is set for a non-empty id
setDownloadId(v) ==
    /\ v # ui.downloadId
    /\ ui.previewRequestRef < MaxTokens
    /\ ui' = [ui EXCEPT !.downloadId = v,
                        !.fileInfo = NoInfo,
                        !.infoError = NoError,
                        !.previewRequestRef = @ + 1,
                        !.isFetchingInfo = FALSE,
                        !.timer = Trim(v)]
    /\ UNCHANGED server

\* lines 40-48: requestFileInfo up to the await
requestFileInfo(id, silent) ==
    /\ ui.previewRequestRef < MaxTokens
    /\ Cardinality(ui.inflight) < MaxInflight
    /\ ui' = [ui EXCEPT !.previewRequestRef = @ + 1,
                        !.isFetchingInfo = TRUE,
                        !.infoError = IF silent THEN @ ELSE NoError,
                        !.timer = IF silent THEN <<>> ELSE @,
                        !.inflight = @ \cup {[token |-> ui.previewRequestRef + 1,
                                              id |-> id, silent |-> silent]}]
    /\ UNCHANGED server

\* lines 90-92: the debounce timer fires
TimerFires ==
    /\ ui.timer # <<>>
    /\ requestFileInfo(ui.timer, TRUE)

\* lines 70-77 and 150-153: a click on Preview, enabled while no request is
\* under way and the id is not blank
handlePreview ==
    /\ ~ui.isFetchingInfo
    /\ Trim(ui.downloadId) # <<>>
    /\ requestFileInfo(Trim(ui.downloadId), FALSE)

\* a success applied without the test of the token
InfoResolvedUnchecked(r) ==
    /\ r \in ui.inflight
    /\ Truthy(SanitizeId(r.id))
    /\ ui' = [ui EXCEPT !.inflight = @ \ {r},
                        !.fileInfo = [id |-> SanitizeId(r.id), asked |-> r.id],
                        !.infoError = NoError,
                        !.isFetchingInfo = FALSE]
    /\ UNCHANGED server

\* lines 48-54 and 63-67: fetchFileInfo resolves with the details of the id
InfoResolved(r) ==
    /\ r \in ui.inflight
    /\ Truthy(SanitizeId(r.id))
    /\ IF ui.previewRequestRef # r.token
       THEN ui' = [ui EXCEPT !.inflight = @ \ {r}, !.dropped = @ \cup {r.token}]
       ELSE ui' = [ui EXCEPT !.inflight = @ \ {r},
                             !.fileInfo = [id |-> SanitizeId(r.id), asked |-> r.id],
                             !.infoError = NoError,
                             !.isFetchingInfo = FALSE]
    /\ UNCHANGED server

\* lines 55-67: fetchFileInfo rejects
InfoRejected(r) ==
    /\ r \in ui.inflight
    /\ IF ui.previewRequestRef # r.token
       THEN ui' = [ui EXCEPT !.inflight = @ \ {r}, !.dropped = @ \cup {r.token}]
       ELSE ui' = [ui EXCEPT !.inflight = @ \ {r},
                             !.fileInfo = NoInfo,
                             !.infoError = "Unable to fetch file details",
                             !.isFetchingInfo = FALSE]
    /\ UNCHANGED server

\* lines 99-112 and 157-160: a click on Download, enabled while no download
\* is under way and details are held
handleDownload ==
    /\ ~ui.isDownloading
    /\ ui.fileInfo # NoInfo
    /\ Trim(ui.downloadId) # <<>>
    /\ ui' = [ui EXCEPT !.isDownloading = TRUE, !.downloading = Trim(ui.downloadId)]
    /\ UNCHANGED server

\* lines 112-124: downloadFile settles
DownloadSettled ==
    /\ ui.isDownloading
    /\ ui' = [ui EXCEPT !.isDownloading = FALSE, !.downloading = <<>>]
    /\ UNCHANGED server

ClientNext ==
    \/ \E v \in IdInputs : setDownloadId(v)
    \/ TimerFires
    \/ handlePreview
    \/ \E r \in ui.inflight : InfoResolved(r)
    \/ \E r \in ui.inflight : InfoRejected(r)
    \/ handleDownload
    \/ DownloadSettled

SpecClient == ClientInit /\ [][ClientNext]_vars

(***************************************************************************)
(* POST requests with any combination of defects, among uploads that       *)
(* succeed: one process.                                                   *)
(***************************************************************************)
DefectPosts ==
    {[NoReq EXCEPT !.method = "POST", !.action = a, !.hasFile = f, !.error = e,
                   !.name = <<"n">>,
                   !.payload = [data |-> "p", size |-> n, entries |-> NotArchive]] :
        a \in {"upload", "delete", ""}, f \in BOOLEAN, e \in {UPLOAD_ERR_OK, 1},
        n \in {1, maxSize + 1}}

DefectPostInvalid(p) == PostInvalidOf(p, DefectPosts)

PostsNext ==
    \/ Begin(1)
    \/ SweepGlob(1)
    \/ SweepRead(1)
    \/ DefectPostInvalid(1)
    \/ PostMove(1)
    \/ UpExpires(1)
    \/ UpStat(1)
    \/ UpOpen(1)
    \/ UpWrite(1)
    \/ Finish(1)

SpecPosts == Init /\ [][PostsNext]_vars

(***************************************************************************)
(* What the claims speak of.                                               *)
(***************************************************************************)
\* p has answered a GET that carries an id
Answered(p) == pc[p] = "done" /\ IsGet(req[p])

AnsweredDownload(p) == Answered(p) /\ ~req[p].info
AnsweredInfo(p) == Answered(p) /\ req[p].info

\* the id the handler looks up for p's request
AskedId(p) == SanitizeId(req[p].rawId)

\* the uploads answered with success before p's request arrived
IssuedBefore(p) == {issued[k] : k \in 1..arrived[p].n}

SameBytes(a, b) == a.data = b.data /\ a.size = b.size /\ a.entries = b.entries

(***************************************************************************)
(* C1: round trip.  A download of id i that is answered with success,      *)
(* made after an upload was answered with success and id i and before that *)
(* record expires, returns the uploaded bytes, a content length equal to   *)
(* their number and the submitted filename as the name the client sees.    *)
(***************************************************************************)
C1_RoundTrip ==
    \A p \in Procs : AnsweredDownload(p) =>
        \A u \in IssuedBefore(p) :
            (u.id = AskedId(p) /\ clock < u.expiresAt /\ resp[p].status = 200) =>
                /\ SameBytes(resp[p].body, u.payload)
                /\ resp[p].contentLength = u.payload.size
                /\ ClientFilename(resp[p], AskedId(p)) = u.name

(***************************************************************************)
(* C2: an Info or Download is answered with success only if the record     *)
(* the handler found was whole and the clock it compared the expiry with   *)
(* was before expiresAt; never at now = expiresAt or later.                *)
(***************************************************************************)
C2_SuccessOnlyIfLive ==
    \A p \in Procs : (Answered(p) /\ resp[p].status = 200) =>
        /\ loc[p].rec # NullMeta
        /\ loc[p].now < loc[p].rec.expiresAt

(***************************************************************************)
(* C3: an Info or Download for an id whose record had expiresAt in the     *)
(* past when the request arrived is answered with 410 Gone.                *)
(***************************************************************************)
C3_ExpiredIsGone ==
    \A p \in Procs : (Answered(p) /\ AskedId(p) \in arrived[p].expired) =>
        resp[p].status = 410

(***************************************************************************)
(* C4: once the expiresAt of a record whose metadata a successful upload   *)
(* has stored has passed, and a sweep that began after that has completed, *)
(* neither the metadata entry nor the byte object of the record is in      *)
(* storage.                                                                *)
(***************************************************************************)
\* p's sweep has gone through all the files it found
SweepComplete(p) == pc[p] = "sweep_read" /\ loc[p].list = {}

\* the metadata entry of upload u is in storage
MetaOf(u) ==
    LET m == DecodeMeta(metaFiles, u.id)
    IN  m.path = u.path /\ m.expiresAt = u.expiresAt /\ m.uploadedAt = u.uploadedAt

\* no other upload put its bytes at the path of issued[k]
OwnPath(k) ==
    /\ \A j \in 1..Len(issued) : j # k => issued[j].path # issued[k].path
    /\ \A q \in Procs : loc[q].rec.path = issued[k].path => pc[q] \notin
          {"up_expires", "up_stat", "up_open", "up_write", "done"}

C4_RemovedAfterExpiry ==
    \A p \in Procs : SweepComplete(p) =>
        \A k \in 1..arrived[p].n :
            (issued[k].stored /\ issued[k].expiresAt < loc[p].now /\ OwnPath(k)) =>
                /\ ~MetaOf(issued[k])
                /\ issued[k].path \notin DOMAIN dataFiles

\* the same, for uploads whose ids are all different
C4_DistinctIds ==
    \A p \in Procs : SweepComplete(p) =>
        \A k \in 1..arrived[p].n :
            (/\ issued[k].stored /\ issued[k].expiresAt < loc[p].now /\ OwnPath(k)
             /\ \A j \in 1..Len(issued) : j # k => issued[j].id # issued[k].id
             /\ \A q \in Procs : pc[q] \in {"up_expires", "up_stat", "up_open", "up_write"}
                    => loc[q].cur # issued[k].id) =>
                /\ ~MetaOf(issued[k])
                /\ issued[k].path \notin DOMAIN dataFiles

(***************************************************************************)
(* C5: an Info for the id of the upload that was last answered with        *)
(* success, arriving before anything else is uploaded and before the       *)
(* record expires, succeeds and reports the number of bytes uploaded; so   *)
(* does the answer to the upload.                                          *)
(***************************************************************************)
C5_InfoAfterUpload ==
    /\ \A p \in Procs :
          (/\ AnsweredInfo(p)
           /\ arrived[p].n > 0
           /\ arrived[p].n = Len(issued)
           /\ issued[arrived[p].n].id = AskedId(p)
           /\ clock < issued[arrived[p].n].expiresAt) =>
              /\ resp[p].status = 200
              /\ resp[p].size = issued[arrived[p].n].payload.size
    /\ \A p \in Procs :
          (pc[p] = "done" /\ req[p].method = "POST" /\ resp[p].status = 200) =>
              resp[p].size = req[p].payload.size

(***************************************************************************)
(* C6: every committed record has expiresAt - uploadedAt = TTL exactly.    *)
(***************************************************************************)
C6_TtlExact ==
    \A id \in DOMAIN metaFiles :
        metaFiles[id].kind = "json" =>
            metaFiles[id].rec.expiresAt - metaFiles[id].rec.uploadedAt = TTL

(***************************************************************************)
(* C7: write-then-publish.  Whenever a metadata file exists, opened or     *)
(* written, the bytes its record points to have been put in place before;  *)
(* a reader that finds a record finds its bytes, unless a cleanup has      *)
(* unlinked them since.                                                    *)
(***************************************************************************)
BytesWritten(path) == path \in DOMAIN dataFiles \/ path \in unlinked

C7_WriteThenPublish ==
    /\ \A id \in DOMAIN metaFiles :
          /\ metaFiles[id].kind = "json" => BytesWritten(metaFiles[id].rec.path)
          /\ \A p \in metaFiles[id].fds : BytesWritten(loc[p].rec.path)
    /\ \A p \in Procs :
          (pc[p] \in {"get_unlink_stray", "get_expiry", "get_serve"}
              /\ loc[p].rec # NullMeta) => BytesWritten(loc[p].rec.path)

\* a reader that arrived before an upload was answered finds the record of
\* that upload, and the bytes with it
C7_Witness ==
    \E q \in Procs :
        /\ pc[q] = "get_expiry"
        /\ loc[q].rec # NullMeta
        /\ loc[q].rec.path \in DOMAIN dataFiles
        /\ \E k \in (arrived[q].n + 1)..Len(issued) :
              issued[k].id = loc[q].cur /\ issued[k].path = loc[q].rec.path

(***************************************************************************)
(* C8: no reader finds the metadata of an upload in progress half-written  *)
(* and deletes it as inconsistent.                                         *)
(***************************************************************************)
C8_AtomicCommit ==
    \A q \in Procs :
        (pc[q] = "get_unlink_stray" /\ loc[q].rec = NullMeta) =>
            ~\E p \in Procs : pc[p] = "up_write" /\ loc[p].cur = loc[q].cur

(***************************************************************************)
(* C9: a Download that found its record live and is answered with success  *)
(* delivers the complete bytes, whatever cleanups ran meanwhile: the body  *)
(* is there and as long as the content length says.                        *)
(***************************************************************************)
C9_CompleteBody ==
    \A p \in Procs :
        (/\ AnsweredDownload(p) /\ resp[p].status = 200
         /\ loc[p].now < loc[p].rec.expiresAt) =>
        /\ resp[p].body # NoPayload
        /\ resp[p].body.size = resp[p].contentLength

(***************************************************************************)
(* C10: an upload that generated the id of an existing metadata record     *)
(* leaves that record unchanged.                                           *)
(***************************************************************************)
C10_NoOverwrite ==
    [][\A p \in Procs :
          (/\ pc[p] = "up_open"
           /\ pc'[p] # "up_open"
           /\ DecodeMeta(metaFiles, loc[p].cur) # NullMeta) =>
              DecodeMeta(metaFiles', loc[p].cur) = DecodeMeta(metaFiles, loc[p].cur)]_vars

(***************************************************************************)
(* C11: an upload whose metadata write fails answers 500 and leaves        *)
(* neither its byte object nor a metadata record behind.  The step from    *)
(* the opening of the metadata file straight to the answer is the failed   *)
(* write.                                                                  *)
(***************************************************************************)
C11_WriteFailureRollsBack ==
    [][\A p \in Procs :
          (pc[p] = "up_open" /\ pc'[p] = "done") =>
              /\ resp'[p].status = 500
              /\ loc[p].rec.path \notin DOMAIN dataFiles'
              /\ DecodeMeta(metaFiles', loc[p].cur) # loc[p].rec]_vars

(***************************************************************************)
(* C12: when the handler of an Info or Download reads a metadata entry     *)
(* that does not decode, or one whose bytes are absent, it treats the      *)
(* record as stray; a stray record is answered with 404 and its metadata   *)
(* entry is gone when the answer is sent.                                  *)
(***************************************************************************)
\* the metadata entry of id is there, unreadable or without its bytes
Stray(id) ==
    /\ id \in DOMAIN metaFiles
    /\ \/ metaFiles[id].kind # "json"
       \/ metaFiles[id].rec.path \notin DOMAIN dataFiles

C12_StrayIsNotFound ==
    [][\A p \in Procs :
          /\ (pc[p] = "get_read" /\ pc'[p] # "get_read" /\ Stray(loc[p].cur)) =>
                pc'[p] = "get_unlink_stray"
          /\ (pc[p] = "get_unlink_stray" /\ pc'[p] # "get_unlink_stray") =>
                /\ pc'[p] = "done"
                /\ resp'[p].status = 404
                /\ loc[p].cur \notin DOMAIN metaFiles']_vars

\* a readable record whose bytes a cleanup has removed is found stray
C12_Witness ==
    \E p \in Procs :
        /\ pc[p] = "done" /\ IsGet(req[p]) /\ resp[p].status = 404
        /\ loc[p].rec # NullMeta
        /\ loc[p].rec.path \in unlinked

(***************************************************************************)
(* C13: no byte object without a metadata entry survives a request for its *)
(* id: when an Info or Download for an id is answered and no upload is at  *)
(* work, storage holds no byte object of that id without its metadata.     *)
(***************************************************************************)
\* the byte objects stored for id: their names begin with the id and "__"
BytesOf(id) ==
    {path \in DOMAIN dataFiles :
        /\ Len(path) >= Len(TargetPath(id \o <<"_","_">>))
        /\ SubSeq(path, 1, Len(TargetPath(id \o <<"_","_">>)))
              = TargetPath(id \o <<"_","_">>)}

NoUploadAtWork ==
    \A q \in Procs : pc[q] \notin {"up_expires", "up_stat", "up_open", "up_write"}

C13_NoOrphanSurvives ==
    \A p \in Procs :
        (Answered(p) /\ AskedId(p) # <<>> /\ NoUploadAtWork
            /\ AskedId(p) \notin DOMAIN metaFiles) =>
                BytesOf(AskedId(p)) = {}

(***************************************************************************)
(* C14: the sweep is idempotent.  When a sweep has gone through the files  *)
(* it found, a second sweep reading the same clock would find no record to *)
(* remove: no record in storage is expired at the time the sweep read.     *)
(***************************************************************************)
\* the records a sweep reading the clock at now removes
SweptAt(now) ==
    {id \in DOMAIN metaFiles :
        /\ DecodeMeta(metaFiles, id) # NullMeta
        /\ Expired(DecodeMeta(metaFiles, id).expiresAt, now)}

C14_SweepIdempotent ==
    \A p \in Procs : SweepComplete(p) => SweptAt(loc[p].now) = {}

\* a sweep that found expired records has gone through them
C14_Witness ==
    \E p \in Procs : SweepComplete(p) /\ arrived[p].expired # {} /\ unlinked # {}

(***************************************************************************)
(* C15: when a sweep that read the clock at now has gone through the files *)
(* it found, no record with expiresAt <= now is left in storage, the       *)
(* records with expiresAt = now included.                                  *)
(***************************************************************************)
C15_SweepBoundary ==
    \A p \in Procs : SweepComplete(p) =>
        \A id \in DOMAIN metaFiles :
            DecodeMeta(metaFiles, id) # NullMeta =>
                DecodeMeta(metaFiles, id).expiresAt > loc[p].now

(***************************************************************************)
(* C16: an Info or Download for an id that no upload has generated is      *)
(* answered with 404 and leaves storage without any object of that id.     *)
(***************************************************************************)
\* no upload, answered or at work, has drawn id
NeverIssued(id) ==
    /\ \A k \in 1..Len(issued) : issued[k].id # id
    /\ \A q \in Procs : loc[q].rec.id # id

WholeUpload(r) ==
    /\ r.method = "POST" /\ r.action = "upload" /\ r.hasFile
    /\ r.error = UPLOAD_ERR_OK

UploadSteps == {"up_expires", "up_stat", "up_open", "up_write"}

C17_SizeLimit ==
    [][\A p \in Procs :
          /\ (pc[p] = "handle" /\ pc'[p] # "handle" /\ WholeUpload(req'[p])) =>
                IF req'[p].payload.size > maxSize
                THEN /\ pc'[p] = "done" /\ resp'[p].status = 413
                     /\ dataFiles' = dataFiles /\ metaFiles' = metaFiles
                ELSE \/ /\ pc'[p] = "done" /\ resp'[p].status = 500
                        /\ dataFiles' = dataFiles /\ metaFiles' = metaFiles
                     \/ /\ pc'[p] = "up_expires"
                        /\ loc'[p].rec.path \in DOMAIN dataFiles'
                        /\ dataFiles'[loc'[p].rec.path] = req'[p].payload
          /\ (pc[p] \in UploadSteps /\ pc'[p] = "done") =>
                /\ resp'[p].status = 200 /\ resp'[p].success
                /\ req[p].payload.size <= maxSize]_vars

\* an upload over the maximum is refused while one of the maximum size is
\* stored
C17_Witness ==
    \E p \in Procs :
        /\ pc[p] = "done" /\ WholeUpload(req[p])
        /\ req[p].payload.size = maxSize + 1 /\ resp[p].status = 413
        /\ \E k \in 1..Len(issued) :
              /\ issued[k].payload.size = maxSize
              /\ MetaOf(issued[k])
              /\ issued[k].path \in DOMAIN dataFiles
              /\ dataFiles[issued[k].path].size = maxSize

(***************************************************************************)
(* C18: an upload whose payload is missing or has no bytes is answered 400 *)
(* and creates no record: it never gets to the storing steps.              *)
(***************************************************************************)
EmptyUpload(r) == r.method = "POST" /\ (~r.hasFile \/ r.payload.size = 0)

C18_NonEmptyPayload ==
    \A p \in Procs : EmptyUpload(req[p]) =>
        /\ pc[p] \notin UploadSteps
        /\ pc[p] = "done" => (resp[p].status = 400 /\ loc[p].cur = <<>>)

(***************************************************************************)
(* C19: the id of an Info or Download is stripped of every character that  *)
(* is not a hex digit of the generator; when nothing is left the answer is *)
(* 400, and otherwise the request goes on to the lookup, of the stripped   *)
(* value only.                                                             *)
(***************************************************************************)
\* the output alphabet of bin2hex
HexDigit == Digit \cup {"a", "b", "c", "d", "e", "f"}

HexStrip(raw) == MapChars(raw, HexDigit, <<>>)

C19_IdStripped ==
    \A p \in Procs : Answered(p) =>
        /\ HexStrip(req[p].rawId) = <<>> => resp[p].status = 400
        /\ HexStrip(req[p].rawId) # <<>> =>
              /\ resp[p].status # 400
              /\ loc[p].cur \in {<<>>, HexStrip(req[p].rawId)}

(***************************************************************************)
(* C20: the Info of a stored archive with n content entries, directory     *)
(* placeholders not counted wherever they stand, carries the first         *)
(* min(n, 200) content entries in the order of the archive's directory,    *)
(* and zipTruncated is true exactly when n > 200.                          *)
(***************************************************************************)
Min(a, b) == IF a < b THEN a ELSE b

C20_PreviewLimit ==
    \A p \in Procs :
        (/\ AnsweredInfo(p) /\ resp[p].status = 200
         /\ loc[p].rec.path \in DOMAIN dataFiles
         /\ IsArchive(dataFiles[loc[p].rec.path])) =>
            LET content == ContentEntries(dataFiles[loc[p].rec.path].entries)
            IN  /\ resp[p].isZip /\ resp[p].merged
                /\ resp[p].preview.zipContents
                      = SubSeq(content, 1, Min(Len(content), previewLimit))
                /\ resp[p].preview.zipTruncated = (Len(content) > previewLimit)

\* an archive of more than 200 files with directory placeholders among its
\* first 200 entries: 200 files are shown, the preview is truncated
C20_Witness ==
    \E p \in Procs :
        /\ AnsweredInfo(p) /\ resp[p].status = 200
        /\ resp[p].preview.zipTruncated
        /\ Len(resp[p].preview.zipContents) = previewLimit
        /\ loc[p].rec.path \in DOMAIN dataFiles
        /\ IsDirEntry(dataFiles[loc[p].rec.path].entries[1])

(***************************************************************************)
(* C21: an Info request for a live stored object whose bytes are not an    *)
(* archive (or cannot be opened as one) is answered with success, an empty *)
(* entry list and truncated = false, whatever the object's name.           *)
(***************************************************************************)
\* p's request found the record of a live object whose bytes are in place
FoundLive(p) ==
    /\ loc[p].rec # NullMeta
    /\ loc[p].rec.path \in DOMAIN dataFiles
    /\ ~Expired(loc[p].rec.expiresAt, clock)

C21_PreviewNeverFails ==
    \A p \in Procs :
        (/\ AnsweredInfo(p) /\ FoundLive(p)
         /\ ~IsArchive(dataFiles[loc[p].rec.path])) =>
            /\ resp[p].status = 200 /\ resp[p].success
            /\ resp[p].preview.zipContents = <<>>
            /\ ~resp[p].preview.zipTruncated

\* the Info of an object named as an archive whose bytes are none
C21_Witness ==
    \E p \in Procs :
        /\ AnsweredInfo(p) /\ FoundLive(p)
        /\ ~IsArchive(dataFiles[loc[p].rec.path])
        /\ resp[p].isZip /\ resp[p].status = 200

(***************************************************************************)
(* C22: a successful Info response carries the previewer's result exactly  *)
(* when the stored name ends in ".zip" in any mix of cases, and then isZip *)
(* is true; for every other stored name isZip is false and nothing of the  *)
(* previewer is merged in, whatever the bytes are.                         *)
(***************************************************************************)
LowerOf(c) ==
    IF \E i \in 1..Len(UpperSeq) : UpperSeq[i] = c
    THEN LowerSeq[CHOOSE i \in 1..Len(UpperSeq) : UpperSeq[i] = c]
    ELSE c

HasArchiveExtension(name) ==
    /\ Len(name) >= 4
    /\ [i \in 1..4 |-> LowerOf(name[Len(name) - 4 + i])] = <<".", "z", "i", "p">>

C22_PreviewOnlyForArchiveNames ==
    \A p \in Procs :
        (AnsweredInfo(p) /\ resp[p].status = 200 /\ FoundLive(p)) =>
            IF HasArchiveExtension(loc[p].rec.storedName)
            THEN /\ resp[p].isZip /\ resp[p].merged
                 /\ resp[p].preview.zipContents =
                       IF IsArchive(dataFiles[loc[p].rec.path])
                       THEN LET content ==
                                  ContentEntries(dataFiles[loc[p].rec.path].entries)
                            IN  SubSeq(content, 1, Min(Len(content), previewLimit))
                       ELSE <<>>
            ELSE /\ ~resp[p].isZip /\ ~resp[p].merged
                 /\ resp[p].preview = NoPreview

\* the Info of an object named x.ZiP whose bytes are an archive with files,
\* and before it none merged for a name without the extension
C22_Witness ==
    \E p \in Procs :
        /\ AnsweredInfo(p) /\ resp[p].status = 200 /\ FoundLive(p)
        /\ loc[p].rec.storedName # [i \in 1..Len(loc[p].rec.storedName) |->
                                       LowerOf(loc[p].rec.storedName[i])]
        /\ resp[p].isZip /\ resp[p].merged
        /\ resp[p].preview.zipContents # <<>>

(***************************************************************************)
(* C23: whatever filename the client submits, the stored location of an    *)
(* upload is the upload directory, a separator, the generated id, "__" and *)
(* a non-empty fragment without any path separator, so it lies directly    *)
(* inside the upload directory; uploads with distinct ids have distinct    *)
(* stored locations, also when they submit the same filename.              *)
(***************************************************************************)
PathSeparators == {"/", "\\"}

WellPlaced(path, id) ==
    LET prefix == UploadDir \o <<"/">> \o id \o <<"_", "_">>
    IN  /\ Len(path) > Len(prefix)
        /\ SubSeq(path, 1, Len(prefix)) = prefix
        /\ \A i \in (Len(UploadDir) + 2)..Len(path) : path[i] \notin PathSeparators

C23_StoredLocation ==
    /\ \A p \in Procs :
          pc[p] \in UploadSteps =>
              /\ WellPlaced(loc[p].rec.path, loc[p].cur)
              /\ loc[p].rec.path \in DOMAIN dataFiles
    /\ \A k \in 1..Len(issued) : WellPlaced(issued[k].path, issued[k].id)
    /\ \A j, k \in 1..Len(issued) :
          issued[j].id # issued[k].id => issued[j].path # issued[k].path

\* two uploads of one filename that holds a path separator, under two ids
C23_Witness ==
    \E j, k \in 1..Len(issued) :
        /\ issued[j].id # issued[k].id
        /\ issued[j].name = issued[k].name
        /\ \E i \in 1..Len(issued[j].name) : issued[j].name[i] \in PathSeparators
        /\ {issued[j].path, issued[k].path} \subseteq DOMAIN dataFiles

(***************************************************************************)
(* C24: preview first.  The panel issues a download request only while it  *)
(* holds details that a successful Info request for the id now in the      *)
(* input field returned, and asks for that id; every change of the id      *)
(* clears the held details, and only the success of an Info request for    *)
(* the id in the field sets them again.                                    *)
(***************************************************************************)
C24_PreviewFirst ==
    [][/\ ui'.downloadId # ui.downloadId => ui'.fileInfo = NoInfo
       /\ (~ui.isDownloading /\ ui'.isDownloading) =>
              /\ ui.fileInfo # NoInfo
              /\ ui.fileInfo.asked = Trim(ui.downloadId)
              /\ ui'.downloading = Trim(ui.downloadId)
       /\ (ui'.fileInfo # NoInfo /\ ui'.fileInfo # ui.fileInfo) =>
              \E r \in ui.inflight :
                  /\ r \notin ui'.inflight
                  /\ r.id = Trim(ui'.downloadId)
                  /\ ui'.fileInfo.asked = r.id]_vars

\* a download of b under way, asked for after the field changed from a to b
\* while the Info request for a was still awaiting its response
C24_Witness ==
    /\ ui.isDownloading
    /\ ui.downloading = <<"b">>
    /\ ui.fileInfo.asked = <<"b">>
    /\ \E r \in ui.inflight : r.id = <<"a">>

(***************************************************************************)
(* C29: the response, success or failure, of an Info request that has been *)
(* superseded by a later Info request or by a change of the id never       *)
(* changes the displayed details, the error message or the loading flag,   *)
(* in whatever order the responses arrive.                                 *)
(***************************************************************************)
C29_StaleResponseIgnored ==
    [][\A r \in ui.inflight :
          (r \notin ui'.inflight /\ r.token # ui.previewRequestRef) =>
              /\ ui'.fileInfo = ui.fileInfo
              /\ ui'.infoError = ui.infoError
              /\ ui'.isFetchingInfo = ui.isFetchingInfo]_vars

\* details for b are displayed and the response of a superseded request has
\* arrived after them
C29_Witness ==
    /\ ui.fileInfo.asked = <<"b">>
    /\ ui.downloadId = <<"b">>
    /\ ui.dropped # {}
    /\ \E t \in ui.dropped : \A r \in ui.inflight : r.token # t
    /\ ui.inflight = {}
    /\ ~ui.isFetchingInfo

(***************************************************************************)
(* C25: the sweep and the expiry cleanup of the read path remove the bytes *)
(* of a record first and its metadata entry second: the step that removes  *)
(* the bytes leaves the metadata in place, and a cleanup removes metadata  *)
(* only in the step that follows its removal of the bytes, and nothing in  *)
(* any other step.  Part way through, a cleanup has left a metadata entry  *)
(* without bytes at worst.                                                 *)
(***************************************************************************)
UnlinkDataSteps == {"sweep_unlink_data", "get_exp_unlink_data"}
UnlinkMetaSteps == {"sweep_unlink_meta", "get_exp_unlink_meta"}

C25_BytesBeforeMetadata ==
    [][\A p \in Procs :
          pc'[p] # pc[p] =>
              /\ pc[p] \in UnlinkDataSteps =>
                    /\ loc[p].rec.path \notin DOMAIN dataFiles'
                    /\ metaFiles' = metaFiles
                    /\ pc'[p] \in UnlinkMetaSteps
              /\ pc'[p] \in UnlinkMetaSteps => pc[p] \in UnlinkDataSteps
              /\ pc[p] \in UnlinkMetaSteps =>
                    /\ loc[p].cur \notin DOMAIN metaFiles'
                    /\ dataFiles' = dataFiles
              /\ pc[p] \in {"sweep_glob", "sweep_read", "get_expiry"} =>
                    /\ metaFiles' = metaFiles
                    /\ dataFiles' = dataFiles]_vars

\* part way through a sweep: the bytes of the expired record are gone, its
\* metadata entry is still there
C25_Witness ==
    \E p \in Procs :
        /\ pc[p] = "sweep_unlink_meta"
        /\ loc[p].cur \in DOMAIN metaFiles
        /\ loc[p].rec.path \in unlinked
        /\ loc[p].rec.path \notin DOMAIN dataFiles

(***************************************************************************)
(* C26: a sweep runs to completion at the start of every inbound request,  *)
(* the preflight included, before the request's own operation is executed  *)
(* or answered: a request starts with the sweep, reaches its handler only  *)
(* from a sweep that has gone through the whole list, and is not answered  *)
(* before.                                                                 *)
(***************************************************************************)
SweepSteps == {"sweep_glob", "sweep_read", "sweep_unlink_data", "sweep_unlink_meta"}

\* p's step ends a sweep that has nothing left to read
SweepEnds(p) ==
    \/ pc[p] = "sweep_glob" /\ DOMAIN metaFiles = {}
    \/ pc[p] = "sweep_read" /\ loc[p].list = {}

SweptFirst(p) ==
    /\ (pc[p] \in SweepSteps /\ pc'[p] # pc[p]) =>
          /\ pc'[p] \in SweepSteps \cup {"handle"}
          /\ resp'[p] = NoResp
    /\ (pc'[p] = "handle" /\ pc[p] # "handle") => SweepEnds(p)

C26_SweepBeforeEveryRequest ==
    [][\A p \in Procs :
          /\ (pc[p] = "idle" /\ pc'[p] # "idle") => pc'[p] = "sweep_glob"
          /\ SweptFirst(p)]_vars

\* C26 as the script has it: every request but the preflight starts with a
\* sweep that runs to completion before the request is handled or answered;
\* the preflight is answered 204 at once and touches nothing.
C26_SweepBeforeEveryRequestButPreflight ==
    [][\A p \in Procs :
          /\ (pc[p] = "idle" /\ pc'[p] # "idle") =>
                \/ pc'[p] = "sweep_glob"
                \/ /\ req'[p].method = "OPTIONS"
                   /\ pc'[p] = "done" /\ resp'[p].status = 204
                   /\ dataFiles' = dataFiles /\ metaFiles' = metaFiles
          /\ SweptFirst(p)]_vars

\* an unsupported request answered after its sweep removed an expired record
C26_Witness ==
    \E p \in Procs :
        /\ pc[p] = "done" /\ req[p].method = "PUT" /\ resp[p].status = 405
        /\ arrived[p].expired # {}
        /\ \A id \in arrived[p].expired : id \notin DOMAIN metaFiles
        /\ unlinked # {}

(***************************************************************************)
(* C27: records are immutable and isolated.  No step of a sweep or of the  *)
(* handler of an Info or Download creates a metadata entry or a byte       *)
(* object, and none changes or removes the metadata or the bytes of a      *)
(* record that is live and consistent when the step is taken, be it the    *)
(* record asked for or another.                                            *)
(***************************************************************************)
GetSteps ==
    {"get_read", "get_unlink_stray", "get_expiry", "get_exp_unlink_data",
     "get_exp_unlink_meta", "get_serve"}

\* the record of id is in storage whole and has not expired
LiveAndConsistent(id) ==
    /\ DecodeMeta(metaFiles, id) # NullMeta
    /\ DecodeMeta(metaFiles, id).path \in DOMAIN dataFiles
    /\ clock < DecodeMeta(metaFiles, id).expiresAt

\* p takes a step of a sweep or of the GET handler
ReadStep(p) ==
    /\ pc'[p] # pc[p]
    /\ \/ pc[p] \in SweepSteps \cup GetSteps
       \/ pc[p] = "handle" /\ IsGet(req'[p])

C27_ReadersLeaveRecordsAlone ==
    [][\A p \in Procs :
          ReadStep(p) =>
              /\ DOMAIN metaFiles' \subseteq DOMAIN metaFiles
              /\ DOMAIN dataFiles' \subseteq DOMAIN dataFiles
              /\ \A id \in DOMAIN metaFiles :
                    LiveAndConsistent(id) =>
                        /\ id \in DOMAIN metaFiles'
                        /\ metaFiles'[id] = metaFiles[id]
                        /\ metaFiles[id].rec.path \in DOMAIN dataFiles'
                        /\ dataFiles'[metaFiles[id].rec.path]
                              = dataFiles[metaFiles[id].rec.path]]_vars

(***************************************************************************)
(* C28: a POST that fails validation is answered without any change to the *)
(* metadata or the bytes in storage, and never goes on to the storing      *)
(* steps.  The checks run in the order action, file, transport error,      *)
(* size: the answer is 413 only when the size is the one defect, and 400   *)
(* whenever the action, the file or the transport is at fault, whatever    *)
(* the size.                                                               *)
(***************************************************************************)
Defective(r) ==
    \/ r.action # "upload"
    \/ ~r.hasFile
    \/ r.error # UPLOAD_ERR_OK
    \/ r.payload.size > maxSize

FirstDefectStatus(r) ==
    IF r.action = "upload" /\ r.hasFile /\ r.error = UPLOAD_ERR_OK THEN 413 ELSE 400

C28_RejectedPostChangesNothing ==
    [][\A p \in Procs :
          (/\ pc[p] = "handle" /\ pc'[p] # "handle"
           /\ req'[p].method = "POST" /\ Defective(req'[p])) =>
              /\ pc'[p] = "done"
              /\ resp'[p].status = FirstDefectStatus(req'[p])
              /\ ~resp'[p].success
              /\ dataFiles' = dataFiles
              /\ metaFiles' = metaFiles]_vars

\* a POST with the wrong action and a file over the limit, answered 400
\* while a record is in storage
C28_Witness ==
    \E p \in Procs :
        /\ pc[p] = "done" /\ req[p].method = "POST"
        /\ req[p].action # "upload" /\ req[p].payload.size > maxSize
        /\ resp[p].status = 400
        /\ \E k \in 1..Len(issued) : MetaOf(issued[k]) /\ issued[k].path \in DOMAIN dataFiles

====
